---- MODULE Spec2Model ----
(***************************************************************************)
(* Model of the two analysis tools of .check/:                             *)
(*   VerifySourceCalls.py    - call resolver (global function index,       *)
(*                             per-script resolution, include usage)       *)
(*   DependencyCycleCheck.py - inclusion graph and Tarjan SCC cycle report *)
(*                                                                         *)
(* A file is a sequence of lines.  A line is a pair <<kind, arg>> standing *)
(* for one shape of shell text:                                            *)
(*   <<"def", f>>      f() {                                               *)
(*   <<"call", f>>     f                    (a line whose only word is f)  *)
(*   <<"comment", f>>  # f                  (full-line comment naming f)   *)
(*   <<"source", n>>   source "${UTILITYPATH}/n"                           *)
(*   <<"dot", n>>      . "${UTILITYPATH}/n"                                *)
(*   <<"bare", n>>     source ${UTILITYPATH}/n      (the unquoted form)    *)
(*   <<"blank", "">>   an empty line                                       *)
(*   <<"glued", n>>    # csource "${UTILITYPATH}/n" (a comment and an      *)
(*                     include statement run together on one line)         *)
(* A line ends with a newline; the last line of a file may lack it, and is *)
(* then the triple <<kind, arg, "noeol">>.                                 *)
(* A path is a pair <<directory, filename>>.                               *)
(***************************************************************************)
EXTENDS Integers, Sequences, FiniteSets, TLC

VARIABLES
    fs,               \* the file system: path -> sequence of lines
    pc,               \* position of the running tool's main()
    \* ---- VerifySourceCalls.py
    global_map,       \* function name -> set of utility filenames (only keys that were set)
    cache,            \* _utility_func_cache: filename -> set of function names
    todo,             \* scripts_to_check not yet visited (sequence of paths)
    cur,              \* the script of the current loop iteration, as a sequence of 0 or 1 paths
    unknown_calls,    \* analyze_script result: set of <<call, reason>>
    used_includes,    \* analyze_script result
    all_includes,     \* analyze_script result
    unused_includes,  \* main: all_includes - used_includes
    missing_includes, \* main: files taken from "Needs source" reasons
    truly_unknown,    \* main: the other <<call, reason>> pairs
    \* ---- DependencyCycleCheck.py
    sh_files,         \* find_sh_files result (sequence of paths, in scan order)
    graph,            \* build_dependency_graph: filename -> set of filenames
    graph_keys,       \* insertion order of graph's keys
    outer,            \* nodes the loop "for node in graph" has still to visit
    frames,           \* the recursion of strongconnect: sequence of [node, deps]
    index_counter,
    tindex,           \* index: node -> discovery index (only assigned nodes)
    lowlinks,
    stack,
    on_stack,         \* the nodes whose on_stack flag is True
    components,
    cycles,           \* main: components with more than one member
    cycle_displays,   \* main: the closed paths printed
    exit_code,        \* the exit status of the tool (-1 while running)
    \* ---- VerifySourceCalls.py, a run with --fix
    fix,              \* args.fix
    ans,              \* the answer to the prompt of the current script ("" before it)
    add_sources,      \* fix_script's argument
    remove_sources,   \* fix_script's argument
    util_todo,        \* utility files build_global_function_map has still to read
    unreadable,       \* the paths on which open() raises
    \* ---- history
    orig,             \* the file system at the start of the run
    past,             \* the runs before this one: [start, approved, findings] each
    prev,             \* the file system before the last call of fix_script
    approved,         \* the scripts whose prompt was answered 'y'
    findings,         \* the scripts for which an issue was reported
    run               \* number of the run of the tool (1 = first)

resolverVars == <<global_map, cache, todo, cur, unknown_calls, used_includes,
                  all_includes, unused_includes, missing_includes, truly_unknown>>
cycleVars == <<sh_files, graph, graph_keys, outer, frames, index_counter, tindex,
               lowlinks, stack, on_stack, components, cycles, cycle_displays, exit_code>>
runVars == <<fix, ans, add_sources, remove_sources, util_todo, unreadable,
             orig, past, prev, approved, findings, run>>
vars == <<fs, pc, resolverVars, cycleVars, runVars>>

----------------------------------------------------------------------------
(* Bounds of the model *)

\* longest script the resolver is run on
MaxLines == 3
\* most include statements in one file of the inclusion graph
MaxDeps == 2

----------------------------------------------------------------------------
(* Generic helpers *)

Range(s) == {s[i] : i \in 1..Len(s)}

\* mutant of Min: the first argument is kept (a lowlink is never lowered)
Min_First(a, b) == a

Min(a, b) == IF a <= b THEN a ELSE b

SeqsUpTo(S, n) == UNION {[1..k -> S] : k \in 0..n}

\* the injective sequences over the whole of S (every enumeration order of S)
Perms(S) == {p \in [1..Cardinality(S) -> S] : Range(p) = S}

\* dict.get(key, default)
DictGet(d, k, default) == IF k \in DOMAIN d THEN d[k] ELSE default

\* d[k] = v on a dict
DictSet(d, k, v) == [x \in DOMAIN d \cup {k} |-> IF x = k THEN v ELSE d[x]]

EmptyDict == [x \in {} |-> {}]

----------------------------------------------------------------------------
(* The regular expressions, on the line shapes above *)

\* FUNC_DEF_REGEX.search(line): the set holding group(1), empty when no match
FUNC_DEF_REGEX(line) == IF line[1] = "def" THEN {line[2]} ELSE {}

\* SOURCE_REGEX.search(line): the set holding group(1), empty when no match
SOURCE_REGEX(line) == IF line[1] \in {"source", "dot", "bare"} THEN {line[2]} ELSE {}

\* line.strip().split(): the words of a line ("(){" stands for the words of a
\* definition line, "path" for the quoted path of an include statement)
Tokens(line) ==
    CASE line[1] = "call"    -> {line[2]}
      [] line[1] = "comment" -> {"#", line[2]}
      [] line[1] = "def"     -> {"(){"}
      [] line[1] = "source"  -> {"source", "path"}
      [] line[1] = "dot"     -> {".", "path"}
      [] line[1] = "bare"    -> {"source", "path"}
      [] line[1] = "glued"   -> {"#", "csource", "path"}
      [] OTHER               -> {}

\* the words of the model that match ^__[a-zA-Z0-9_]+__$
DunderWords == {"__foo__", "__bar__", "__base__"}

\* CALL_REGEX.match(t)
CALL_REGEX(t) == t \in DunderWords

----------------------------------------------------------------------------
(* VerifySourceCalls.py: the directories and the pure functions *)

UTILITIES_DIR == "Utilities"
UTILITIES_SUB == "Utilities/sub"
SCRIPTS_DIR == "Scripts"

\* p lies under the utilities directory (rglob, and the startswith test of main)
UnderUtilities(p) == p[1] \in {UTILITIES_DIR, UTILITIES_SUB}

\* os.path.isfile
IsFile(files, p) == p \in DOMAIN files

parse_functions_in_file(files, p) ==
    IF ~IsFile(files, p) THEN {}
    ELSE UNION {FUNC_DEF_REGEX(files[p][i]) : i \in 1..Len(files[p])}

\* the first component of parse_script_for_includes_and_local_funcs
ScriptIncludes(files, p) ==
    IF ~IsFile(files, p) THEN {}
    ELSE UNION {SOURCE_REGEX(files[p][i]) : i \in 1..Len(files[p])}

\* the word "__base__" is never a call
IsSkippedCall(t) == t = "__base__"

gather_function_calls(files, p) ==
    IF ~IsFile(files, p) THEN {}
    ELSE UNION { IF FUNC_DEF_REGEX(files[p][i]) # {} THEN {}
                 ELSE {t \in Tokens(files[p][i]) : CALL_REGEX(t) /\ ~IsSkippedCall(t)}
                 : i \in 1..Len(files[p]) }

\* rglob("*.sh") under the utilities directory (every file of the model is a .sh file)
UtilityScripts(files) == {p \in DOMAIN files : UnderUtilities(p)}

\* build_global_function_map: the key f exists iff some utility file defines f
build_global_function_map(files) ==
    LET defined == UNION {parse_functions_in_file(files, p) : p \in UtilityScripts(files)}
    IN  [f \in defined |->
            {p[2] : p \in {q \in UtilityScripts(files) : f \in parse_functions_in_file(files, q)}}]

\* mutant of parse_utility_functions: a filled cache answers for every filename
parse_utility_functions_AnyEntry(files, c, inc) ==
    IF DOMAIN c # {} THEN c[CHOOSE k \in DOMAIN c : TRUE]
    ELSE parse_functions_in_file(files, <<UTILITIES_DIR, inc>>)

\* parse_utility_functions(inc): the cached set, else a parse of UTILITIES_DIR/inc
parse_utility_functions(files, c, inc) ==
    IF inc \in DOMAIN c THEN c[inc]
    ELSE parse_functions_in_file(files, <<UTILITIES_DIR, inc>>)

\* the cache after parse_utility_functions has been called for every include
CacheAfter(files, c, incs) ==
    [inc \in DOMAIN c \cup incs |-> parse_utility_functions(files, c, inc)]

\* includes_that_define of analyze_script
IncludesThatDefine(call, incs, included_funcs_map) ==
    {inc \in incs : call \in included_funcs_map[inc]}

\* mutant of UsedByCall: of several includes that define the call, only one is marked
UsedByCall_OnlyOne(call, incs, included_funcs_map) ==
    LET itd == IncludesThatDefine(call, incs, included_funcs_map)
    IN  IF itd = {} THEN {} ELSE {CHOOSE x \in itd : TRUE}

\* what one call adds to used_includes
UsedByCall(call, incs, included_funcs_map) ==
    LET itd == IncludesThatDefine(call, incs, included_funcs_map)
    IN  IF Cardinality(itd) = 1 THEN {CHOOSE x \in itd : TRUE}
        ELSE IF Cardinality(itd) > 1 THEN itd
        ELSE {}

\* mutant of GlobalReason: the branch for a single defining file is missing
GlobalReason_NoSingle(call, gmap) ==
    IF call \notin DOMAIN gmap THEN <<"No utility defines it", {}>>
    ELSE IF Cardinality(gmap[call]) = 1 THEN <<"No utility defines it", {}>>
    ELSE <<"Defined in multiple scripts", gmap[call]>>

\* mutant of GlobalReason: of several defining files the first is taken
GlobalReason_PickFirst(call, gmap) ==
    IF call \notin DOMAIN gmap THEN <<"No utility defines it", {}>>
    ELSE <<"Needs source", {CHOOSE x \in gmap[call] : TRUE}>>

\* the reason appended for a call that no include defines: <<text, files>>
GlobalReason(call, gmap) ==
    IF call \notin DOMAIN gmap THEN <<"No utility defines it", {}>>
    ELSE IF Cardinality(gmap[call]) = 1 THEN <<"Needs source", gmap[call]>>
    ELSE <<"Defined in multiple scripts", gmap[call]>>

\* the calls that reach the global map: not local, defined by no include
ReachGlobal(calls, local_funcs, incs, included_funcs_map) ==
    {call \in calls : call \notin local_funcs
                      /\ IncludesThatDefine(call, incs, included_funcs_map) = {}}

\* mutant of NonLocal: a call of a local function is looked up in the includes too
NonLocal_All(calls, local_funcs) == calls

\* the calls that are looked up in the includes
NonLocal(calls, local_funcs) == calls \ local_funcs

analyze_script(files, c, gmap, p) ==
    LET incs == ScriptIncludes(files, p)
        local_funcs == parse_functions_in_file(files, p)
        calls == gather_function_calls(files, p)
        included_funcs_map == CacheAfter(files, c, incs)
    IN  [ unknown_calls |->
              {<<call, GlobalReason(call, gmap)>> :
                  call \in ReachGlobal(calls, local_funcs, incs, included_funcs_map)},
          used_includes |->
              UNION {UsedByCall(call, incs, included_funcs_map) :
                        call \in NonLocal(calls, local_funcs)},
          all_includes |-> incs,
          cache |-> included_funcs_map ]

\* reason.startswith("Needs source \"")
IsNeedsSource(reason) == reason[1] = "Needs source"

\* mutant of MissingIncludes: the files of every reason are taken
MissingIncludes_AnyReason(unknown) == UNION {uc[2][2] : uc \in unknown}

\* main: the files cut out of the "Needs source" reasons
MissingIncludes(unknown) ==
    UNION {uc[2][2] : uc \in {u \in unknown : IsNeedsSource(u[2])}}

TrulyUnknown(unknown) == {u \in unknown : ~IsNeedsSource(u[2])}

\* mutant of UnusedIncludes: the difference is taken the wrong way round
UnusedIncludes_Reversed(incs, used) == used \ incs

\* main: unused_includes = all_includes - used_includes
UnusedIncludes(incs, used) == incs \ used

----------------------------------------------------------------------------
(* VerifySourceCalls.py: main() as a state machine *)

ScriptPath == <<SCRIPTS_DIR, "s.sh">>

ResolverUtilityPaths ==
    {<<UTILITIES_DIR, "X.sh">>, <<UTILITIES_DIR, "Y.sh">>, <<UTILITIES_SUB, "X.sh">>}

\* the lines a checked script is made of
ScriptLines ==
    { <<"def", "__foo__">>, <<"call", "__foo__">>, <<"call", "__bar__">>,
      <<"call", "__base__">>, <<"comment", "__bar__">>,
      <<"source", "X.sh">>, <<"source", "Y.sh">>, <<"dot", "Y.sh">> }

\* the contents of a utility file: any set of the two functions
UtilityContents ==
    { <<>>, << <<"def", "__foo__">> >>, << <<"def", "__bar__">> >>,
      << <<"def", "__foo__">>, <<"def", "__bar__">> >> }

ResolverFileSystems ==
    {[p \in ResolverUtilityPaths \cup {ScriptPath} |->
          IF p = ScriptPath THEN s ELSE u[p]] :
        s \in SeqsUpTo(ScriptLines, MaxLines),
        u \in [ResolverUtilityPaths -> UtilityContents]}

\* the values the variables of the tool that is not running keep
ResolverIdle ==
    /\ global_map = EmptyDict
    /\ cache = EmptyDict
    /\ todo = <<>>
    /\ cur = <<>>
    /\ unknown_calls = {}
    /\ used_includes = {}
    /\ all_includes = {}
    /\ unused_includes = {}
    /\ missing_includes = {}
    /\ truly_unknown = {}

CycleIdle ==
    /\ sh_files = <<>>
    /\ graph = EmptyDict
    /\ graph_keys = <<>>
    /\ outer = <<>>
    /\ frames = <<>>
    /\ index_counter = 0
    /\ tindex = EmptyDict
    /\ lowlinks = EmptyDict
    /\ stack = <<>>
    /\ on_stack = {}
    /\ components = <<>>
    /\ cycles = <<>>
    /\ cycle_displays = <<>>
    /\ exit_code = -1

\* the values the variables of a run with --fix keep in a run without it
RunIdle ==
    /\ fix = FALSE
    /\ ans = ""
    /\ add_sources = {}
    /\ remove_sources = {}
    /\ util_todo = <<>>
    /\ unreadable = {}
    /\ orig = fs
    /\ past = <<>>
    /\ prev = fs
    /\ approved = {}
    /\ findings = {}
    /\ run = 1

InitResolver ==
    /\ fs \in ResolverFileSystems
    /\ pc = "start"
    /\ ResolverIdle
    /\ CycleIdle
    /\ RunIdle

\* main, lines 289-300: the global map, then the scripts outside the utilities
\* directory in the order rglob yields them
BuildGlobalMap ==
    /\ pc = "start"
    /\ global_map' = build_global_function_map(fs)
    /\ \E order \in Perms({p \in DOMAIN fs : ~UnderUtilities(p)}) : todo' = order
    /\ pc' = "loop"
    /\ UNCHANGED <<runVars, fs, cache, cur, unknown_calls, used_includes, all_includes,
                   unused_includes, missing_includes, truly_unknown, cycleVars>>

\* open() raises in analyze_script(p): on the script itself, or on an included
\* utility file that exists and is not in the cache yet
ReadFails(files, c, p) ==
    \/ p \in unreadable
    \/ \E inc \in ScriptIncludes(files, p) :
          /\ inc \notin DOMAIN c
          /\ IsFile(files, <<UTILITIES_DIR, inc>>)
          /\ <<UTILITIES_DIR, inc>> \in unreadable

\* main, lines 303-320: one iteration up to the three sets of findings
AnalyzeScript ==
    /\ pc = "loop"
    /\ todo # <<>>
    /\ ~ReadFails(fs, cache, Head(todo))
    /\ LET r == analyze_script(fs, cache, global_map, Head(todo))
       IN  /\ unknown_calls' = r.unknown_calls
           /\ used_includes' = r.used_includes
           /\ all_includes' = r.all_includes
           /\ cache' = r.cache
           /\ unused_includes' = UnusedIncludes(r.all_includes, r.used_includes)
           /\ missing_includes' = MissingIncludes(r.unknown_calls)
           /\ truly_unknown' = TrulyUnknown(r.unknown_calls)
    /\ cur' = <<Head(todo)>>
    /\ todo' = Tail(todo)
    /\ pc' = "analyzed"
    /\ UNCHANGED <<runVars, fs, global_map, cycleVars>>

NoIssues == truly_unknown = {} /\ missing_includes = {} /\ unused_includes = {}

\* main, lines 323-325: "[OK]" and on to the next script
ReportOK ==
    /\ pc = "analyzed"
    /\ NoIssues
    /\ pc' = "loop"
    /\ UNCHANGED <<runVars, fs, resolverVars, cycleVars>>

\* main, lines 328-344: the findings are printed; without --fix, on to the next
\* script, with --fix on to the prompt
ReportFindings ==
    /\ pc = "analyzed"
    /\ ~NoIssues
    /\ findings' = findings \cup {cur[1]}
    /\ pc' = IF fix THEN "prompt" ELSE "loop"
    /\ UNCHANGED <<fs, resolverVars, cycleVars, fix, ans, add_sources, remove_sources,
                   util_todo, unreadable, orig, past, prev, approved, run>>

\* main, lines 361-362
ResolverExit ==
    /\ pc = "loop"
    /\ todo = <<>>
    /\ pc' = "done"
    /\ exit_code' = 0
    /\ UNCHANGED <<runVars, fs, resolverVars, sh_files, graph, graph_keys, outer, frames,
                   index_counter, tindex, lowlinks, stack, on_stack, components,
                   cycles, cycle_displays>>

NextResolver ==
    \/ BuildGlobalMap
    \/ AnalyzeScript
    \/ ReportOK
    \/ ReportFindings
    \/ ResolverExit

SpecResolver == InitResolver /\ [][NextResolver]_vars

----------------------------------------------------------------------------
(* What the files say, read directly (no cache, no index) *)

\* the script analysed by the current iteration
CurScript == cur[1]

CurCalls == gather_function_calls(fs, CurScript)
CurLocal == parse_functions_in_file(fs, CurScript)
CurIncludes == ScriptIncludes(fs, CurScript)
CurNonLocalCalls == CurCalls \ CurLocal

\* the functions defined by the file an include statement of inc pulls in
IncludedDefines(inc) ==
    IF <<UTILITIES_DIR, inc>> \in DOMAIN fs
    THEN {fs[<<UTILITIES_DIR, inc>>][i][2] :
             i \in {j \in 1..Len(fs[<<UTILITIES_DIR, inc>>]) :
                       fs[<<UTILITIES_DIR, inc>>][j][1] = "def"}}
    ELSE {}

\* the includes of the current script whose file defines t
Candidates(t) == {inc \in CurIncludes : t \in IncludedDefines(inc)}

\* the filenames of the utility files that define t
DefiningFiles(t) ==
    {p[2] : p \in {q \in DOMAIN fs : /\ UnderUtilities(q)
                                     /\ \E i \in 1..Len(fs[q]) : fs[q][i] = <<"def", t>>}}

\* the reasons recorded for call t
ReasonsOf(t) == {u[2] : u \in {v \in unknown_calls : v[1] = t}}

----------------------------------------------------------------------------
(* Claims about the call resolver *)

\* C1: a call that is not local, that no included file defines and that exactly
\* one utility file F defines gets the reason 'Needs source "F"' and no other
\* reason (never 'No utility defines it'), and F is proposed as a missing include.
C1_NeedsInclude ==
    pc = "analyzed" =>
        \A t \in CurNonLocalCalls :
            (Candidates(t) = {} /\ Cardinality(DefiningFiles(t)) = 1)
                => /\ ReasonsOf(t) = {<<"Needs source", DefiningFiles(t)>>}
                   /\ DefiningFiles(t) \subseteq missing_includes

\* a script that includes one file and calls a function only another file defines
C1_Witness ==
    /\ pc = "analyzed"
    /\ CurIncludes # {}
    /\ \E t \in CurNonLocalCalls :
          /\ Candidates(t) = {}
          /\ Cardinality(DefiningFiles(t)) = 1
          /\ <<t, <<"Needs source", DefiningFiles(t)>> >> \in unknown_calls

C3_NoAmbiguousFix ==
    pc = "analyzed" =>
        /\ \A F \in missing_includes :
              \E t \in CurNonLocalCalls :
                  Candidates(t) = {} /\ DefiningFiles(t) = {F}
        /\ \A t \in CurNonLocalCalls :
              Cardinality(Candidates(t)) >= 2 => Candidates(t) \cap unused_includes = {}

\* Scenario C beside a fixable call: one call is ambiguous, another needs one
\* file, and only that file is proposed
C3_Witness ==
    /\ pc = "analyzed"
    /\ \E t \in CurNonLocalCalls :
          /\ Cardinality(DefiningFiles(t)) >= 2
          /\ Candidates(t) = {}
          /\ <<"Defined in multiple scripts", DefiningFiles(t)>> \in ReasonsOf(t)
          /\ \E F \in DefiningFiles(t) : F \notin missing_includes
    /\ missing_includes # {}

C5_CandidatesUsed ==
    pc = "analyzed" =>
        /\ \A t \in CurNonLocalCalls :
              Candidates(t) # {} => Candidates(t) \subseteq used_includes /\ ReasonsOf(t) = {}
        /\ used_includes = UNION {Candidates(t) : t \in CurNonLocalCalls}

\* a call that two includes define, both marked used
C5_Witness ==
    /\ pc = "analyzed"
    /\ \E t \in CurNonLocalCalls :
          /\ Cardinality(Candidates(t)) = 2
          /\ Candidates(t) \subseteq used_includes

\* C6: an include is unused exactly when its file defines no call of the script
\* that is not local; used and unused includes partition the declared includes.
C6_UnusedPartition ==
    pc = "analyzed" =>
        /\ all_includes = CurIncludes
        /\ \A inc \in all_includes :
              inc \in unused_includes <=> ~ \E t \in CurNonLocalCalls : t \in IncludedDefines(inc)
        /\ used_includes \subseteq all_includes
        /\ unused_includes = all_includes \ used_includes

\* a script with one used and one unused include
C6_Witness ==
    /\ pc = "analyzed"
    /\ used_includes # {}
    /\ unused_includes # {}
    /\ used_includes \cup unused_includes = all_includes

----------------------------------------------------------------------------
(* DependencyCycleCheck.py: the graph *)

CYCLE_ROOT == "Root"
CYCLE_SUB == "Root/sub"

\* find_sh_files: os.walk lists the files of the base directory, then those of
\* its subdirectory, each directory in the order the file system gives
find_sh_files(files) ==
    {r \o s : r \in Perms({p \in DOMAIN files : p[1] = CYCLE_ROOT}),
              s \in Perms({p \in DOMAIN files : p[1] = CYCLE_SUB})}

parse_dependencies(files, p) ==
    UNION {SOURCE_REGEX(files[p][i]) : i \in 1..Len(files[p])}

\* the loop of build_dependency_graph over list, from the dict g
RECURSIVE GraphFrom(_, _, _)
GraphFrom(files, list, g) ==
    IF list = <<>> THEN g
    ELSE GraphFrom(files, Tail(list),
                   DictSet(g, Head(list)[2], parse_dependencies(files, Head(list))))

\* the keys of that dict in insertion order
RECURSIVE KeysFrom(_, _)
KeysFrom(list, keys) ==
    IF list = <<>> THEN keys
    ELSE KeysFrom(Tail(list),
                  IF Head(list)[2] \in Range(keys) THEN keys ELSE Append(keys, Head(list)[2]))

build_dependency_graph(files, list) == GraphFrom(files, list, EmptyDict)

\* mutant of DepInGraph: the test "dep not in graph" is missing
DepInGraph_Always(dep, g) == TRUE

\* strongconnect: "if dep not in graph: continue"
DepInGraph(dep, g) == dep \in DOMAIN g

\* the while loop of strongconnect: the stack is popped down to node
PoppedComponent(stk, node) ==
    LET k == CHOOSE i \in 1..Len(stk) : stk[i] = node
    IN  [i \in 1..(Len(stk) - k + 1) |-> stk[Len(stk) - i + 1]]

StackBelow(stk, node) ==
    LET k == CHOOSE i \in 1..Len(stk) : stk[i] = node
    IN  SubSeq(stk, 1, k - 1)

\* mutant of IsCycle: a component of one node counts as a cycle
IsCycle_Any(comp) == Len(comp) >= 1

\* main: "if len(comp) > 1"
IsCycle(comp) == Len(comp) > 1

\* main: cycles = [comp for comp in components if len(comp) > 1]
RECURSIVE CyclesOf(_)
CyclesOf(comps) ==
    IF comps = <<>> THEN <<>>
    ELSE IF IsCycle(Head(comps)) THEN <<Head(comps)>> \o CyclesOf(Tail(comps))
    ELSE CyclesOf(Tail(comps))

\* main: cycle_display = cycle + [cycle[0]]
CycleDisplay(cycle) == Append(cycle, cycle[1])

----------------------------------------------------------------------------
(* DependencyCycleCheck.py: main() and find_strongly_connected_components *)

CycleNames == <<"A.sh", "B.sh", "C.sh">>

CyclePaths ==
    {<<CYCLE_ROOT, "A.sh">>, <<CYCLE_ROOT, "B.sh">>, <<CYCLE_ROOT, "C.sh">>,
     <<CYCLE_SUB, "A.sh">>}

\* the contents of a scanned file: at most MaxDeps include statements
CycleContents ==
    {[i \in 1..Len(ix) |-> <<"source", CycleNames[ix[i]]>>] :
        ix \in {jx \in SeqsUpTo(1..Len(CycleNames), MaxDeps) :
                   \A a, b \in 1..Len(jx) : a < b => jx[a] < jx[b]}}

CycleFileSystems == UNION {[P -> CycleContents] : P \in SUBSET CyclePaths}

InitCycle ==
    /\ fs \in CycleFileSystems
    /\ pc = "start"
    /\ ResolverIdle
    /\ CycleIdle
    /\ RunIdle

\* main, lines 232-241: build_dependency_graph
BuildGraph ==
    /\ pc = "start"
    /\ \E list \in find_sh_files(fs) :
          /\ sh_files' = list
          /\ graph' = build_dependency_graph(fs, list)
          /\ graph_keys' = KeysFrom(list, <<>>)
          /\ outer' = KeysFrom(list, <<>>)
    /\ pc' = "scc"
    /\ UNCHANGED <<runVars, fs, resolverVars, frames, index_counter, tindex, lowlinks, stack,
                   on_stack, components, cycles, cycle_displays, exit_code>>

\* strongconnect, lines 141-145, and the start of its loop over the successors
Enter(node) ==
    /\ tindex' = DictSet(tindex, node, index_counter)
    /\ lowlinks' = DictSet(lowlinks, node, index_counter)
    /\ index_counter' = index_counter + 1
    /\ stack' = Append(stack, node)
    /\ on_stack' = on_stack \cup {node}

\* lines 169-171: the next node of the graph has no index yet
OuterCall ==
    /\ pc = "scc"
    /\ frames = <<>>
    /\ outer # <<>>
    /\ Head(outer) \notin DOMAIN tindex
    /\ Enter(Head(outer))
    /\ frames' = << [node |-> Head(outer), deps |-> DictGet(graph, Head(outer), {})] >>
    /\ outer' = Tail(outer)
    /\ UNCHANGED <<runVars, fs, pc, resolverVars, sh_files, graph, graph_keys, components,
                   cycles, cycle_displays, exit_code>>

\* lines 169-170: the next node of the graph was reached already
OuterSkip ==
    /\ pc = "scc"
    /\ frames = <<>>
    /\ outer # <<>>
    /\ Head(outer) \in DOMAIN tindex
    /\ outer' = Tail(outer)
    /\ UNCHANGED <<runVars, fs, pc, resolverVars, sh_files, graph, graph_keys, frames,
                   index_counter, tindex, lowlinks, stack, on_stack, components,
                   cycles, cycle_displays, exit_code>>

Top == frames[Len(frames)]

\* the frames with dep taken off the successors the top frame has still to visit
Taken(dep) == [frames EXCEPT ![Len(frames)].deps = @ \ {dep}]

\* lines 148-150: a successor that is no node of the graph
DepDangling ==
    /\ pc = "scc"
    /\ frames # <<>>
    /\ \E dep \in Top.deps :
          /\ ~DepInGraph(dep, graph)
          /\ frames' = Taken(dep)
    /\ UNCHANGED <<runVars, fs, pc, resolverVars, sh_files, graph, graph_keys, outer,
                   index_counter, tindex, lowlinks, stack, on_stack, components,
                   cycles, cycle_displays, exit_code>>

\* lines 152-153: a successor without index: strongconnect(dep)
DepCall ==
    /\ pc = "scc"
    /\ frames # <<>>
    /\ \E dep \in Top.deps :
          /\ DepInGraph(dep, graph)
          /\ dep \notin DOMAIN tindex
          /\ Enter(dep)
          /\ frames' = Append(Taken(dep), [node |-> dep, deps |-> DictGet(graph, dep, {})])
    /\ UNCHANGED <<runVars, fs, pc, resolverVars, sh_files, graph, graph_keys, outer,
                   components, cycles, cycle_displays, exit_code>>

\* lines 155-156: a successor on the stack
DepOnStack ==
    /\ pc = "scc"
    /\ frames # <<>>
    /\ \E dep \in Top.deps :
          /\ DepInGraph(dep, graph)
          /\ dep \in DOMAIN tindex
          /\ dep \in on_stack
          /\ lowlinks' = [lowlinks EXCEPT ![Top.node] = Min(@, tindex[dep])]
          /\ frames' = Taken(dep)
    /\ UNCHANGED <<runVars, fs, pc, resolverVars, sh_files, graph, graph_keys, outer,
                   index_counter, tindex, stack, on_stack, components,
                   cycles, cycle_displays, exit_code>>

\* lines 152-156: a successor with an index that is no longer on the stack
DepDone ==
    /\ pc = "scc"
    /\ frames # <<>>
    /\ \E dep \in Top.deps :
          /\ DepInGraph(dep, graph)
          /\ dep \in DOMAIN tindex
          /\ dep \notin on_stack
          /\ frames' = Taken(dep)
    /\ UNCHANGED <<runVars, fs, pc, resolverVars, sh_files, graph, graph_keys, outer,
                   index_counter, tindex, lowlinks, stack, on_stack, components,
                   cycles, cycle_displays, exit_code>>

\* line 154, run by the caller once strongconnect(child) has returned
AfterReturn(child) ==
    IF Len(frames) = 1 THEN lowlinks
    ELSE [lowlinks EXCEPT ![frames[Len(frames) - 1].node] = Min(@, lowlinks[child])]

\* lines 159-167: the node is the root of a component, which is popped
ReturnRoot ==
    /\ pc = "scc"
    /\ frames # <<>>
    /\ Top.deps = {}
    /\ lowlinks[Top.node] = tindex[Top.node]
    /\ components' = Append(components, PoppedComponent(stack, Top.node))
    /\ stack' = StackBelow(stack, Top.node)
    /\ on_stack' = on_stack \ Range(PoppedComponent(stack, Top.node))
    /\ lowlinks' = AfterReturn(Top.node)
    /\ frames' = SubSeq(frames, 1, Len(frames) - 1)
    /\ UNCHANGED <<runVars, fs, pc, resolverVars, sh_files, graph, graph_keys, outer,
                   index_counter, tindex, cycles, cycle_displays, exit_code>>

\* line 159: the node is not the root of a component
ReturnInner ==
    /\ pc = "scc"
    /\ frames # <<>>
    /\ Top.deps = {}
    /\ lowlinks[Top.node] # tindex[Top.node]
    /\ lowlinks' = AfterReturn(Top.node)
    /\ frames' = SubSeq(frames, 1, Len(frames) - 1)
    /\ UNCHANGED <<runVars, fs, pc, resolverVars, sh_files, graph, graph_keys, outer,
                   index_counter, tindex, stack, on_stack, components,
                   cycles, cycle_displays, exit_code>>

\* mutant of ExitStatus: the status does not depend on the cycles
ExitStatus_Zero(cs) == 0

\* main, line 334: return 0 if len(cycles) == 0 else 1
ExitStatus(cs) == IF Len(cs) = 0 THEN 0 ELSE 1

\* main, lines 245-257 and 334
Report ==
    /\ pc = "scc"
    /\ frames = <<>>
    /\ outer = <<>>
    /\ cycles' = CyclesOf(components)
    /\ cycle_displays' = [i \in 1..Len(CyclesOf(components)) |->
                             CycleDisplay(CyclesOf(components)[i])]
    /\ exit_code' = ExitStatus(CyclesOf(components))
    /\ pc' = "done"
    /\ UNCHANGED <<runVars, fs, resolverVars, sh_files, graph, graph_keys, outer, frames,
                   index_counter, tindex, lowlinks, stack, on_stack, components>>

NextCycle ==
    \/ BuildGraph
    \/ OuterCall
    \/ OuterSkip
    \/ DepDangling
    \/ DepCall
    \/ DepOnStack
    \/ DepDone
    \/ ReturnRoot
    \/ ReturnInner
    \/ Report

SpecCycle == InitCycle /\ [][NextCycle]_vars

----------------------------------------------------------------------------
(* What the graph says, by reachability *)

Nodes == DOMAIN graph

\* x -> y is an edge: both are nodes and x's file includes y
Edge(x, y) == x \in Nodes /\ y \in Nodes /\ y \in graph[x]

RECURSIVE ReachFrom(_, _)
ReachFrom(S, n) ==
    IF n = 0 THEN S
    ELSE ReachFrom(S \cup {y \in Nodes : \E x \in S : Edge(x, y)}, n - 1)

\* the nodes reached from x along one edge or more
Reachable(x) == ReachFrom({y \in Nodes : Edge(x, y)}, Cardinality(Nodes))

\* the strongly-connected component of x
SCC(x) == {x} \cup {y \in Nodes : y \in Reachable(x) /\ x \in Reachable(y)}

\* the filenames of the scanned files
ScannedNames == {p[2] : p \in DOMAIN fs}

\* the filenames some scanned file includes though no scanned file has that name
DanglingNames == UNION {parse_dependencies(fs, p) : p \in DOMAIN fs} \ ScannedNames

ScenarioA ==
    [n \in {"A.sh", "B.sh", "C.sh"} |->
        CASE n = "A.sh" -> {"B.sh"}
          [] n = "B.sh" -> {"C.sh"}
          [] n = "C.sh" -> {"A.sh"}]

----------------------------------------------------------------------------
(* Claims about the cycle checker *)

\* C7: every strongly-connected component of two or more nodes is reported as a
\* cycle, and in every printed closed path each consecutive pair (x, y) is an
\* edge x -> y of the graph.
C7_ClosedPathEdges ==
    pc = "done" =>
        /\ \A x \in Nodes :
              Cardinality(SCC(x)) >= 2 =>
                  \E i \in 1..Len(cycles) : Range(cycles[i]) = SCC(x)
        /\ \A i \in 1..Len(cycle_displays) :
              \A j \in 1..(Len(cycle_displays[i]) - 1) :
                  Edge(cycle_displays[i][j], cycle_displays[i][j + 1])

\* C8: on the graph {A: {B}, B: {C}, C: {A}} exactly one cycle is reported and
\* the printed path is A -> B -> C -> A.
C8_ScenarioA ==
    (pc = "done" /\ graph = ScenarioA) =>
        cycle_displays = << <<"A.sh", "B.sh", "C.sh", "A.sh">> >>

\* C9: a node that is alone in its strongly-connected component and has no
\* self-edge is in no reported cycle; a graph without cycle reports none.
C9_SingletonNotReported ==
    pc = "done" =>
        /\ \A x \in Nodes :
              (SCC(x) = {x} /\ ~Edge(x, x)) =>
                  \A i \in 1..Len(cycles) : x \notin Range(cycles[i])
        /\ (\A x \in Nodes : x \notin Reachable(x)) => cycles = <<>>

\* a node on no cycle beside a reported cycle of the two other nodes
C9_Witness ==
    /\ pc = "done"
    /\ Len(cycles) = 1
    /\ \E x \in Nodes :
          /\ SCC(x) = {x}
          /\ ~Edge(x, x)
          /\ graph[x] # {}
          /\ x \notin Range(cycles[1])

\* C10: a filename that is included but names no scanned file is never visited
\* by the cycle detector (it gets no index, no frame, no place on the stack or in
\* a component), and every reported cycle is a strongly-connected component of
\* the edges between nodes.
C10_DanglingNotTraversed ==
    /\ \A d \in DanglingNames :
          /\ d \notin Nodes
          /\ d \notin DOMAIN tindex
          /\ d \notin Range(stack)
          /\ \A i \in 1..Len(frames) : frames[i].node # d
          /\ \A i \in 1..Len(components) : d \notin Range(components[i])
          /\ \A i \in 1..Len(cycle_displays) : d \notin Range(cycle_displays[i])
    /\ \A i \in 1..Len(cycles) :
          \E x \in Nodes : Cardinality(SCC(x)) >= 2 /\ Range(cycles[i]) = SCC(x)

\* two files that include each other and a file that is not there
C10_Witness ==
    /\ pc = "done"
    /\ Len(cycles) = 1
    /\ \E x \in Range(cycles[1]) : graph[x] \cap DanglingNames # {}

----------------------------------------------------------------------------
(* VerifySourceCalls.py: fix_script *)

\* line.strip(): the text of the line without its newline and outer blanks
Stripped(line) == <<line[1], line[2]>>

\* the line does not end with a newline
Unterminated(line) == Len(line) = 3

\* f'source "${{UTILITYPATH}}/{a}"' and f'. "${{UTILITYPATH}}/{a}"'
CanonicalSource(a) == <<"source", a>>
CanonicalDot(a) == <<"dot", a>>

\* mutant of should_remove_source_line: every line that names a removed file goes
should_remove_source_line_AnyLine(line, remove_srcs) == line[2] \in remove_srcs

should_remove_source_line(line, remove_srcs) ==
    \/ Stripped(line) \in {CanonicalSource(r) : r \in remove_srcs}
    \/ Stripped(line) \in {CanonicalDot(r) : r \in remove_srcs}

\* the stripped line starts with "#" or is empty
IsHeaderLine(line) == line[1] \in {"comment", "glued", "blank"}

\* find_comment_block_end, as a position of 1..Len(lines)+1
find_comment_block_end(lines) ==
    LET body == {i \in 1..Len(lines) : ~IsHeaderLine(lines[i])}
    IN  IF body = {} THEN Len(lines) + 1
        ELSE CHOOSE i \in body : \A j \in body : i <= j

\* the filenames of the model in the order sorted() gives them
FileOrder == <<"X.sh", "Y.sh">>

Sorted(S) == LET In(n) == n \in S IN SelectSeq(FileOrder, In)

\* lines_to_insert: a canonical line for each file to add that has none yet
lines_to_insert(lines, add_srcs) ==
    LET absent == {a \in add_srcs :
                      \A i \in 1..Len(lines) : Stripped(lines[i]) # CanonicalSource(a)}
        names == Sorted(absent)
    IN  [i \in 1..Len(names) |-> CanonicalSource(names[i])]

\* new_lines: the list handed to writelines
new_lines(lines, add_srcs, remove_srcs) ==
    LET at == find_comment_block_end(lines)
        Keep(l) == ~should_remove_source_line(l, remove_srcs)
    IN  SelectSeq(SubSeq(lines, 1, at - 1), Keep)
          \o lines_to_insert(lines, add_srcs)
          \o SelectSeq(SubSeq(lines, at, Len(lines)), Keep)

\* the text of an unterminated comment line followed by the text of an include line
Glue(l1, l2) == IF Unterminated(l2) THEN <<"glued", l2[2], "noeol">> ELSE <<"glued", l2[2]>>

\* writelines then readlines: the strings are concatenated and split again at the
\* newlines, so a string without a newline runs into the one after it (in new_lines
\* that string can only be a comment: the old last line, followed by inserted lines)
RECURSIVE ReadBack(_)
ReadBack(strings) ==
    IF Len(strings) <= 1 THEN strings
    ELSE IF Unterminated(strings[1])
         THEN ReadBack(<<Glue(strings[1], strings[2])>> \o SubSeq(strings, 3, Len(strings)))
         ELSE <<strings[1]>> \o ReadBack(Tail(strings))

\* the lines of the file after fix_script(script_path, add_sources, remove_sources)
fix_script(lines, add_srcs, remove_srcs) ==
    IF add_srcs = {} /\ remove_srcs = {} THEN lines
    ELSE ReadBack(new_lines(lines, add_srcs, remove_srcs))

----------------------------------------------------------------------------
(* fix_script on its own: any content, any pair of sets, applied twice *)

FixLines ==
    { <<"comment", "__foo__">>, <<"blank", "">>, <<"call", "__foo__">>,
      <<"source", "X.sh">>, <<"dot", "X.sh">>, <<"bare", "X.sh">>, <<"source", "Y.sh">> }

FixNames == {"X.sh", "Y.sh"}

\* s with its last line lacking the newline
NoEol(s) == [s EXCEPT ![Len(s)] = <<s[Len(s)][1], s[Len(s)][2], "noeol">>]

\* the files of at most n lines over S; an empty line always has its newline
Contents(S, n) ==
    LET terminated == SeqsUpTo(S, n)
    IN  terminated \cup
        {NoEol(s) : s \in {t \in terminated : Len(t) > 0 /\ t[Len(t)][1] # "blank"}}

InitFix ==
    /\ fs \in {[p \in {ScriptPath} |-> c] : c \in Contents(FixLines, MaxLines)}
    /\ pc = "fix0"
    /\ ResolverIdle
    /\ CycleIdle
    /\ fix = TRUE
    /\ ans = "y"
    /\ add_sources \in SUBSET FixNames
    /\ remove_sources \in SUBSET FixNames
    /\ util_todo = <<>>
    /\ unreadable = {}
    /\ orig = fs
    /\ past = <<>>
    /\ prev = fs
    /\ approved = {}
    /\ findings = {}
    /\ run = 1

\* fix_script(ScriptPath, add_sources, remove_sources), a first and a second time
FixScript ==
    /\ pc \in {"fix0", "fix1"}
    /\ prev' = fs
    /\ fs' = [fs EXCEPT ![ScriptPath] = fix_script(fs[ScriptPath], add_sources, remove_sources)]
    /\ pc' = IF pc = "fix0" THEN "fix1" ELSE "fix2"
    /\ UNCHANGED <<resolverVars, cycleVars, fix, ans, add_sources, remove_sources,
                   util_todo, unreadable, orig, past, approved, findings, run>>

NextFix == FixScript

SpecFix == InitFix /\ [][NextFix]_vars

\* C11: applying fix_script a second time with the same two sets to the output of
\* a first application leaves the content unchanged
C11_Idempotent == pc = "fix2" => fs[ScriptPath] = prev[ScriptPath]

\* the include lines fix_script newly inserts: canonical lines of files to add
\* that the input has no canonical line for
NewlyInserted(input, line) ==
    /\ line[1] = "source"
    /\ line[2] \in add_sources
    /\ \A i \in 1..Len(input) : Stripped(input[i]) # <<"source", line[2]>>

\* a line whose trimmed text is the canonical 'source' or '.' include of a file to remove
CanonicalOfRemoved(line) == line[1] \in {"source", "dot"} /\ line[2] \in remove_sources

\* output is input with some lines deleted, every deleted line a canonical include
\* of a file to remove, the other lines unchanged and in order
RECURSIVE DeletesOnlyRemoved(_, _)
DeletesOnlyRemoved(input, output) ==
    IF input = <<>> THEN output = <<>>
    ELSE \/ /\ output # <<>>
            /\ input[1] = output[1]
            /\ DeletesOnlyRemoved(Tail(input), Tail(output))
         \/ /\ CanonicalOfRemoved(input[1])
            /\ DeletesOnlyRemoved(Tail(input), output)

\* C12: fix_script changes nothing but the targeted include lines: the output
\* without its newly inserted include lines is the input with only canonical
\* include lines of files to remove deleted, the rest unchanged and in order
C12_Frame ==
    pc \in {"fix1", "fix2"} =>
        LET input == prev[ScriptPath]
            Old(l) == ~NewlyInserted(input, l)
        IN  DeletesOnlyRemoved(input, SelectSeq(fs[ScriptPath], Old))

----------------------------------------------------------------------------
(* VerifySourceCalls.py: a whole run over two scripts, with or without --fix, *)
(* files that cannot be read, writes that fail, and a rerun of the tool       *)

\* longest script of the run with --fix
MaxRunLines == 2
\* the tool is run at most this many times in a row
MaxRuns == 2

OtherScript == <<SCRIPTS_DIR, "t.sh">>
RunScripts == {ScriptPath, OtherScript}
RunUtilityPaths == {<<UTILITIES_DIR, "X.sh">>, <<UTILITIES_SUB, "Y.sh">>}

RunLines ==
    { <<"call", "__foo__">>, <<"comment", "__foo__">>, <<"source", "X.sh">>,
      <<"dot", "X.sh">>, <<"bare", "X.sh">>, <<"source", "Y.sh">> }

OtherContents == { <<>>, << <<"call", "__foo__">> >>, << <<"source", "Y.sh">> >> }

RunUtilityContents == { <<>>, << <<"def", "__foo__">> >> }

RunFileSystems ==
    {[p \in RunUtilityPaths \cup RunScripts |->
          IF p = ScriptPath THEN s ELSE IF p = OtherScript THEN t ELSE u[p]] :
        s \in Contents(RunLines, MaxRunLines),
        t \in OtherContents,
        u \in [RunUtilityPaths -> RunUtilityContents]}

\* at most one file of the run cannot be read
Unreadables == {{}} \cup {{p} : p \in {ScriptPath, OtherScript, <<UTILITIES_DIR, "X.sh">>}}

InitRun ==
    /\ fs \in RunFileSystems
    /\ pc = "start"
    /\ ResolverIdle
    /\ CycleIdle
    /\ fix \in BOOLEAN
    /\ ans = ""
    /\ add_sources = {}
    /\ remove_sources = {}
    /\ util_todo = <<>>
    /\ unreadable \in Unreadables
    /\ orig = fs
    /\ past = <<>>
    /\ prev = fs
    /\ approved = {}
    /\ findings = {}
    /\ run = 1

\* build_global_function_map, lines 52-59: the utility files in the order rglob yields them
StartIndex ==
    /\ pc = "start"
    /\ global_map' = EmptyDict
    /\ util_todo' \in Perms(UtilityScripts(fs))
    /\ pc' = "index"
    /\ UNCHANGED <<fs, cache, todo, cur, unknown_calls, used_includes, all_includes,
                   unused_includes, missing_includes, truly_unknown, cycleVars,
                   fix, ans, add_sources, remove_sources, unreadable, orig, past, prev,
                   approved, findings, run>>

\* mutant of IndexedWith: a later file replaces the files recorded before
IndexedWith_Overwrite(gmap, files, p) ==
    LET funcs == parse_functions_in_file(files, p)
    IN  [f \in DOMAIN gmap \cup funcs |-> IF f \in funcs THEN {p[2]} ELSE gmap[f]]

\* lines 61-65: the map after the functions of one utility file were added
IndexedWith(gmap, files, p) ==
    LET funcs == parse_functions_in_file(files, p)
    IN  [f \in DOMAIN gmap \cup funcs |->
            DictGet(gmap, f, {}) \cup (IF f \in funcs THEN {p[2]} ELSE {})]

\* build_global_function_map, lines 60-65: one iteration
IndexFile ==
    /\ pc = "index"
    /\ util_todo # <<>>
    /\ Head(util_todo) \notin unreadable
    /\ global_map' = IndexedWith(global_map, fs, Head(util_todo))
    /\ util_todo' = Tail(util_todo)
    /\ UNCHANGED <<fs, pc, cache, todo, cur, unknown_calls, used_includes, all_includes,
                   unused_includes, missing_includes, truly_unknown, cycleVars,
                   fix, ans, add_sources, remove_sources, unreadable, orig, past, prev,
                   approved, findings, run>>

\* the exception open() raises is caught nowhere: the interpreter ends with status 1
Crash ==
    /\ pc' = "crashed"
    /\ exit_code' = 1
    /\ UNCHANGED <<sh_files, graph, graph_keys, outer, frames, index_counter, tindex,
                   lowlinks, stack, on_stack, components, cycles, cycle_displays>>

\* parse_functions_in_file, line 76, on a utility file that cannot be read
IndexFileFails ==
    /\ pc = "index"
    /\ util_todo # <<>>
    /\ Head(util_todo) \in unreadable
    /\ Crash
    /\ UNCHANGED <<runVars, fs, resolverVars>>

\* mutant of UtilLoopDone: the loop over the utility files is left at any time
UtilLoopDone_Early(rest) == TRUE

\* the loop of line 60 has visited every utility file
UtilLoopDone(rest) == rest = <<>>

\* line 66 and main, lines 292-300: the map is returned, the scripts are listed
ListScripts ==
    /\ pc = "index"
    /\ UtilLoopDone(util_todo)
    /\ \E order \in Perms({p \in DOMAIN fs : ~UnderUtilities(p)}) : todo' = order
    /\ pc' = "loop"
    /\ UNCHANGED <<runVars, fs, global_map, cache, cur, unknown_calls, used_includes,
                   all_includes, unused_includes, missing_includes, truly_unknown, cycleVars>>

\* analyze_script, lines 76, 94, 111: a file it opens cannot be read
AnalyzeFails ==
    /\ pc = "loop"
    /\ todo # <<>>
    /\ ReadFails(fs, cache, Head(todo))
    /\ cur' = <<Head(todo)>>
    /\ todo' = Tail(todo)
    /\ Crash
    /\ UNCHANGED <<runVars, fs, global_map, cache, unknown_calls, used_includes,
                   all_includes, unused_includes, missing_includes, truly_unknown>>

\* what can be typed at the prompt
Typed == {"y", "Y", "n"}

\* .strip().lower()
Lower(typed) == IF typed = "Y" THEN "y" ELSE typed

\* mutant of Confirmed: the answer is not looked at
Confirmed_Always(a) == TRUE

\* line 349: the answer is 'y'
Confirmed(a) == a = "y"

\* main, lines 348-351: the prompt; any answer but 'y' skips the script
Prompt ==
    /\ pc = "prompt"
    /\ \E typed \in Typed :
          /\ ans' = Lower(typed)
          /\ approved' = IF Lower(typed) = "y" THEN approved \cup {cur[1]} ELSE approved
    /\ pc' = IF Confirmed(ans') THEN "fix" ELSE "loop"
    /\ UNCHANGED <<fs, resolverVars, cycleVars, fix, add_sources, remove_sources,
                   util_todo, unreadable, orig, past, prev, findings, run>>

\* mutant of WriteFixed: the new lines are written to every script of the run
WriteFixed_EveryScript(files, p, add_srcs, remove_srcs) ==
    [q \in DOMAIN files |->
        IF UnderUtilities(q) THEN files[q]
        ELSE fix_script(files[p], add_srcs, remove_srcs)]

\* the file system after fix_script(p, add_srcs, remove_srcs): only p is opened
WriteFixed(files, p, add_srcs, remove_srcs) ==
    [files EXCEPT ![p] = fix_script(files[p], add_srcs, remove_srcs)]

\* main, lines 354-359: fix_script on the current script
Fix ==
    /\ pc = "fix"
    /\ add_sources' = missing_includes
    /\ remove_sources' = unused_includes
    /\ prev' = fs
    /\ fs' = WriteFixed(fs, cur[1], missing_includes, unused_includes)
    /\ pc' = "fixed"
    /\ UNCHANGED <<resolverVars, cycleVars, fix, ans, util_todo, unreadable, orig, past,
                   approved, findings, run>>

\* main, line 359: "Fixes applied", and on to the next script
FixesApplied ==
    /\ pc = "fixed"
    /\ pc' = "loop"
    /\ UNCHANGED <<runVars, fs, resolverVars, cycleVars>>

\* what the file can hold when the write of lines 256-257 raises: the old
\* content when open() raised, else (open has emptied the file) any part of the
\* new content that was flushed
FailedWrites(lines, add_srcs, remove_srcs) ==
    LET new == new_lines(lines, add_srcs, remove_srcs)
    IN  {lines} \cup {ReadBack(SubSeq(new, 1, k)) : k \in 0..(Len(new) - 1)}

\* fix_script, lines 256-257: the write fails
FixWriteFails ==
    /\ pc = "fix"
    /\ missing_includes # {} \/ unused_includes # {}
    /\ add_sources' = missing_includes
    /\ remove_sources' = unused_includes
    /\ prev' = fs
    /\ \E content \in FailedWrites(fs[cur[1]], missing_includes, unused_includes) :
          fs' = [fs EXCEPT ![cur[1]] = content]
    /\ Crash
    /\ UNCHANGED <<resolverVars, fix, ans, util_todo, unreadable, orig, past,
                   approved, findings, run>>

\* the tool is started again on the files the run before left
Rerun ==
    /\ pc = "done"
    /\ run < MaxRuns
    /\ run' = run + 1
    /\ pc' = "start"
    /\ exit_code' = -1
    /\ global_map' = EmptyDict
    /\ cache' = EmptyDict
    /\ todo' = <<>>
    /\ cur' = <<>>
    /\ unknown_calls' = {}
    /\ used_includes' = {}
    /\ all_includes' = {}
    /\ unused_includes' = {}
    /\ missing_includes' = {}
    /\ truly_unknown' = {}
    /\ ans' = ""
    /\ add_sources' = {}
    /\ remove_sources' = {}
    /\ orig' = fs
    /\ past' = Append(past, [start |-> orig, approved |-> approved, findings |-> findings])
    /\ prev' = fs
    /\ approved' = {}
    /\ findings' = {}
    /\ UNCHANGED <<fs, fix, util_todo, unreadable, sh_files, graph, graph_keys, outer,
                   frames, index_counter, tindex, lowlinks, stack, on_stack,
                   components, cycles, cycle_displays>>

NextRun ==
    \/ StartIndex
    \/ IndexFile
    \/ IndexFileFails
    \/ ListScripts
    \/ AnalyzeScript
    \/ AnalyzeFails
    \/ ReportOK
    \/ ReportFindings
    \/ Prompt
    \/ Fix
    \/ FixesApplied
    \/ FixWriteFails
    \/ ResolverExit
    \/ Rerun

SpecRun == InitRun /\ [][NextRun]_vars

----------------------------------------------------------------------------
(* Claims about the run with --fix.  At pc = "fixed" the script cur[1] has    *)
(* just been rewritten: prev holds the files before, remove_sources the       *)
(* includes classified unused, add_sources the missing ones.                  *)

FixedScript == cur[1]

\* the line is an include of file n in a form the inclusion parser recognises
IncludeOf(line, n) == line[1] \in {"source", "dot", "bare"} /\ line[2] = n

\* the lines of the rewritten script that were not newly inserted
SurvivingLines ==
    LET Old(l) == ~NewlyInserted(prev[FixedScript], l)
    IN  SelectSeq(fs[FixedScript], Old)

\* C13 (as stated): when an include of W.sh, in any form the inclusion parser
\* recognises, is classified unused and the fix is applied, re-parsing no longer
\* yields W.sh among the includes, and all other lines are unchanged
C13_ScenarioD ==
    pc = "fixed" =>
        \A W \in remove_sources :
            /\ W \notin ScriptIncludes(fs, FixedScript)
            /\ LET Other(l) == \A V \in remove_sources : ~IncludeOf(l, V)
               IN  SurvivingLines = SelectSeq(prev[FixedScript], Other)

\* C13 (amended): the lines whose trimmed text is the canonical 'source' or '.'
\* include of an unused file are removed and all other lines are unchanged; an
\* unused file is still among the includes on re-parsing exactly when the script
\* included it in the unquoted form
C13_CanonicalRemoved ==
    pc = "fixed" =>
        \A W \in remove_sources :
            /\ \A i \in 1..Len(fs[FixedScript]) :
                  fs[FixedScript][i][1] = "dot" => fs[FixedScript][i][2] # W
            /\ W \notin add_sources =>
                  \A i \in 1..Len(fs[FixedScript]) :
                      fs[FixedScript][i][1] = "source" => fs[FixedScript][i][2] # W
            /\ LET Other(l) == ~CanonicalOfRemoved(l)
               IN  SurvivingLines = SelectSeq(prev[FixedScript], Other)
            /\ W \in ScriptIncludes(fs, FixedScript) <=>
                  \/ \E i \in 1..Len(prev[FixedScript]) : prev[FixedScript][i][1] = "bare"
                                                         /\ prev[FixedScript][i][2] = W
                  \/ NewlyInserted(prev[FixedScript], <<"source", W>>)

\* an unused canonical include was removed next to a line that stayed
C13_Witness ==
    /\ pc = "fixed"
    /\ \E W \in remove_sources :
          /\ \E i \in 1..Len(prev[FixedScript]) : CanonicalOfRemoved(prev[FixedScript][i])
                                                 /\ prev[FixedScript][i][2] = W
          /\ W \notin ScriptIncludes(fs, FixedScript)
    /\ fs[FixedScript] # <<>>

\* the utility files, anywhere under the utilities directory, that define t
DefinedIn(t) ==
    {q \in UtilityScripts(fs) : \E i \in 1..Len(fs[q]) : fs[q][i] = <<"def", t>>}

\* in the run before this one the script p had no include, called t on a line of
\* its own, t was defined in the single utility file named Z, and p was fixed
ScenarioB(p, t, Z) ==
    /\ run = 2
    /\ p \in past[1].approved
    /\ ScriptIncludes(past[1].start, p) = {}
    /\ \E i \in 1..Len(past[1].start[p]) : Stripped(past[1].start[p][i]) = <<"call", t>>
    /\ \E q \in DefinedIn(t) : DefinedIn(t) = {q} /\ q[2] = Z

\* C14: Scenario B converges: after the fix the script holds an include of Z.sh,
\* and the rerun resolves the call by that include and marks Z.sh used - Z.sh is
\* reported neither missing nor unused
C14_ScenarioB ==
    (pc = "analyzed" /\ run = 2) =>
        \A t \in DunderWords, Z \in FixNames :
            ScenarioB(cur[1], t, Z) =>
                /\ Z \in ScriptIncludes(fs, cur[1])
                /\ Z \in used_includes
                /\ Z \notin missing_includes
                /\ Z \notin unused_includes
                /\ \A u \in unknown_calls : u[1] # t

\* C15: a script is written by the fixer only if the run was started with --fix
\* and the prompt for that script was answered 'y' before; a declined prompt or
\* a run without --fix leaves the content of the file unchanged
C15_ConfirmationGate ==
    \A p \in DOMAIN fs : fs[p] # orig[p] => (fix /\ p \in approved)

\* one script was rewritten after a 'y', another was reported and declined
C15_Witness ==
    /\ pc = "loop"
    /\ \E p \in approved : fs[p] # orig[p]
    /\ \E q \in findings : q \notin approved /\ fs[q] = orig[q]

\* C16: the rewrite is all-or-nothing: after fix_script has run on a script,
\* whether or not the write failed, the file holds its complete old content or
\* the complete new content
C16_AllOrNothing ==
    (pc \in {"fixed", "crashed"} /\ cur # <<>>) =>
        fs[cur[1]] \in {prev[cur[1]],
                        fix_script(prev[cur[1]], add_sources, remove_sources)}

\* C17: the resolver exits with 0 exactly when no script had an unknown or
\* ambiguous call, a missing include or an unused include, and with 1 otherwise
C17_ResolverExit ==
    pc = "done" => exit_code = (IF findings = {} THEN 0 ELSE 1)

C19_FaultIsolation == pc # "crashed"

\* every definition of every utility file, as the files were when the run
\* started, is in the index under the name of its file
IndexComplete ==
    \A q \in UtilityScripts(orig) :
        \A i \in 1..Len(orig[q]) :
            orig[q][i][1] = "def" =>
                /\ orig[q][i][2] \in DOMAIN global_map
                /\ q[2] \in global_map[orig[q][i][2]]

\* C20: the index is built from all the utility files before the first script
\* is resolved and before the first fix decision: from the first call of
\* analyze_script on, the index misses no definition of a utility file
C20_IndexFirst ==
    (cur # <<>> \/ pc \in {"loop", "analyzed", "prompt", "fix", "fixed", "done"})
        => IndexComplete

\* a script has been analysed against an index of two utility files
C20_Witness ==
    /\ pc = "analyzed"
    /\ \E f \in DOMAIN global_map : Cardinality(global_map[f]) = 2
    /\ unknown_calls # {}

\* the script p's turn in the loop of main is over
Processed(p) ==
    /\ ~UnderUtilities(p)
    /\ p \notin Range(todo)
    /\ pc \notin {"start", "index"}
    /\ (cur # <<>> /\ p = cur[1]) => pc \in {"fixed", "loop", "done"}

\* the content the fix of this run gives the script p: fix_script with the
\* missing and the unused includes of p, as the files were at the start of the run
FixedContent(p) ==
    LET r == analyze_script(orig, EmptyDict, build_global_function_map(orig), p)
    IN  fix_script(orig[p], MissingIncludes(r.unknown_calls),
                   UnusedIncludes(r.all_includes, r.used_includes))

\* C21: fixes are applied one file at a time with no cross-file effect: at
\* every point of the run, each file other than the one being rewritten holds
\* its full fixed content if its fix was applied, and its original content if
\* it was declined, was not yet processed or is no script
C21_NoCrossFileEffect ==
    \A p \in DOMAIN fs :
        \/ cur # <<>> /\ p = cur[1] /\ pc \in {"fix", "crashed"}
        \/ fs[p] = IF Processed(p) /\ p \in approved THEN FixedContent(p) ELSE orig[p]

\* between two files: the first script was rewritten, the second waits untouched
\* although it has findings of its own
C21_Witness ==
    /\ pc = "loop"
    /\ todo # <<>>
    /\ cur # <<>>
    /\ fs[cur[1]] # orig[cur[1]]
    /\ fs[todo[1]] = orig[todo[1]]
    /\ fs[todo[1]] # FixedContent(todo[1])

----------------------------------------------------------------------------
(* VerifySourceCalls.py: a run on a tree that holds a directory of the skip-list *)

\* DependencyCycleCheck.py, line 35
SKIP_DIRS == {".git", ".github", ".site", ".check", ".docs"}

\* a script in the directory .check of the scripts directory
CheckScript == <<".check", "v.sh">>

\* p lies in a directory whose name is in the skip-list
InSkippedDir(p) == p[1] \in SKIP_DIRS

SkipFileSystems ==
    {[p \in {<<UTILITIES_DIR, "X.sh">>, ScriptPath, CheckScript} |->
          IF p = ScriptPath THEN s ELSE IF p = CheckScript THEN v ELSE u] :
        s \in SeqsUpTo({<<"call", "__foo__">>, <<"source", "X.sh">>}, MaxRunLines),
        v \in OtherContents,
        u \in RunUtilityContents}

InitSkip ==
    /\ fs \in SkipFileSystems
    /\ pc = "start"
    /\ ResolverIdle
    /\ CycleIdle
    /\ fix \in BOOLEAN
    /\ ans = ""
    /\ add_sources = {}
    /\ remove_sources = {}
    /\ util_todo = <<>>
    /\ unreadable = {}
    /\ orig = fs
    /\ past = <<>>
    /\ prev = fs
    /\ approved = {}
    /\ findings = {}
    /\ run = 1

NextSkip ==
    \/ BuildGlobalMap
    \/ AnalyzeScript
    \/ ReportOK
    \/ ReportFindings
    \/ Prompt
    \/ Fix
    \/ FixesApplied
    \/ ResolverExit

SpecSkip == InitSkip /\ [][NextSkip]_vars

\* C22: no .sh file under a directory of the skip-list is analysed by the
\* resolver or offered for fixing: it is never among the scripts to check, never
\* the script of a loop iteration, and never rewritten
C22_SkipList ==
    \A p \in DOMAIN fs :
        InSkippedDir(p) =>
            /\ p \notin Range(todo)
            /\ cur # <<p>>
            /\ fs[p] = orig[p]

\* the index has been returned by build_global_function_map
IndexBuilt == pc \in {"loop", "analyzed", "prompt", "fix", "fixed", "done"}

----------------------------------------------------------------------------
(* Claims about the call tokens of the script analysed by SpecResolver *)

\* the identifier t stands on a full-line comment of the analysed script and on
\* no other line of it
OnlyInComments(t) ==
    /\ \E i \in 1..Len(fs[CurScript]) : fs[CurScript][i] = <<"comment", t>>
    /\ \A i \in 1..Len(fs[CurScript]) : fs[CurScript][i][2] = t => fs[CurScript][i][1] = "comment"

\* the identifiers called on a line that is neither a definition nor a comment
CodeCalls ==
    {fs[CurScript][i][2] : i \in {j \in 1..Len(fs[CurScript]) : fs[CurScript][j][1] = "call"}}

\* C24: an identifier that appears only on full-line comments is never in the
\* call-token set of the script, never yields an unknown or needs-include
\* finding, and never marks an include used
C24_CommentsNoCalls ==
    pc = "analyzed" =>
        /\ \A t \in DunderWords :
              OnlyInComments(t) => /\ t \notin gather_function_calls(fs, CurScript)
                                   /\ ReasonsOf(t) = {}
        /\ \A inc \in used_includes : \E t \in CodeCalls : t \in IncludedDefines(inc)

----------------------------------------------------------------------------
(* Claims about where fix_script puts the new lines (SpecFix, first application) *)

\* the line is blank or '#'-prefixed
BlankOrComment(line) == line[1] \in {"blank", "comment"}

\* the number of leading lines of the input that are blank or '#'-prefixed
HeaderLength(input) ==
    Cardinality({i \in 1..Len(input) : \A j \in 1..i : BlankOrComment(input[j])})

\* one canonical line, ended by a newline, for each file to add that the input
\* has no canonical line of, in sorted order
ExpectedInsert(input) ==
    LET Absent(n) == /\ n \in add_sources
                     /\ \A i \in 1..Len(input) : Stripped(input[i]) # <<"source", n>>
        names == SelectSeq(FileOrder, Absent)
    IN  [i \in 1..Len(names) |-> <<"source", names[i]>>]

\* the lines the file is to hold: the header, the new lines each as a line of
\* its own, then the rest; the canonical includes of the files to remove left out
ExpectedLines(input) ==
    LET Stays(l) == ~CanonicalOfRemoved(l)
        h == HeaderLength(input)
    IN  SelectSeq(SubSeq(input, 1, h), Stays)
          \o ExpectedInsert(input)
          \o SelectSeq(SubSeq(input, h + 1, Len(input)), Stays)

\* C25: fix_script inserts one canonical include line for each file to add that
\* is not yet present as an exact include line, in sorted order, immediately
\* before the first line that is neither blank nor '#'-prefixed, and after the
\* last line when there is no such line, each as a line of its own
C25_Insertion ==
    (pc = "fix1" /\ (add_sources # {} \/ remove_sources # {})) =>
        fs[ScriptPath] = ExpectedLines(prev[ScriptPath])

----------------------------------------------------------------------------
(* Further claims about the cycle checker (SpecCycle) *)

\* x includes itself and lies on no other cycle
SelfEdgeOnly(x) == Edge(x, x) /\ SCC(x) = {x}

\* C26: a file that includes only itself - a self-edge, no other cycle through
\* the node - is not reported as a cycle and does not make the exit status
\* non-zero: it is in no reported cycle, and when the graph has no component of
\* more than one member the status is 0 whatever the self-edges
C26_SelfEdge ==
    pc = "done" =>
        /\ \A x \in Nodes :
              SelfEdgeOnly(x) => \A i \in 1..Len(cycles) : x \notin Range(cycles[i])
        /\ (\A x \in Nodes : SCC(x) = {x}) => (cycles = <<>> /\ exit_code = 0)

\* a run on a graph whose only cycle is a self-edge ended with status 0
C26_Witness ==
    /\ pc = "done"
    /\ \E x \in Nodes : SelfEdgeOnly(x)
    /\ \A x \in Nodes : SCC(x) = {x}
    /\ exit_code = 0

----------------------------------------------------------------------------
(* Further claims about the run with --fix (SpecRun) *)

\* the functions the index records for the utility filename n
IndexedUnder(n) == {f \in DOMAIN global_map : n \in global_map[f]}

\* C27: cache consistency: at every point of the run, also after fixes were
\* written, each entry of the cache is the function set a parse of the current
\* content of the utility file of that name gives, and so is, once the index is
\* built, what the index records for each utility file
C27_CacheConsistent ==
    /\ \A inc \in DOMAIN cache :
          cache[inc] = parse_functions_in_file(fs, <<UTILITIES_DIR, inc>>)
    /\ IndexBuilt =>
          \A q \in UtilityScripts(fs) :
              IndexedUnder(q[2]) =
                  UNION {parse_functions_in_file(fs, r) :
                            r \in {u \in UtilityScripts(fs) : u[2] = q[2]}}

\* the second script is analysed from a filled cache after the first was rewritten
C27_Witness ==
    /\ pc = "analyzed"
    /\ cur = <<OtherScript>>
    /\ fs[ScriptPath] # orig[ScriptPath]
    /\ "X.sh" \in DOMAIN cache
    /\ cache["X.sh"] = {"__foo__"}
    /\ "Y.sh" \in all_includes

\* C28: for every script the includes proposed for addition and the includes
\* proposed for removal are disjoint, wherever the utility file lies under the
\* utilities directory
C28_MissingUnusedDisjoint == missing_includes \cap unused_includes = {}

----------------------------------------------------------------------------
(* Termination of the cycle checker.  The tool is one sequential process: a  *)
(* step that can be taken is taken, which is weak fairness of its next step. *)

SpecCycleLive == InitCycle /\ [][NextCycle]_vars /\ WF_vars(NextCycle)

\* the components returned are a partition of the node set into the classes
\* of mutual reachability
ComponentsPartition ==
    /\ \A i \in 1..Len(components) :
          /\ components[i] # <<>>
          /\ Cardinality(Range(components[i])) = Len(components[i])
          /\ \A x \in Range(components[i]) : x \in Nodes /\ Range(components[i]) = SCC(x)
    /\ \A x \in Nodes :
          Cardinality({i \in 1..Len(components) : x \in Range(components[i])}) = 1

----------------------------------------------------------------------------
\* C30: once the graph is built, every include captured from a scanned file
\* is a member of the graph entry of that file's basename, also when two
\* scanned files share a basename
C30_NoIncludeLost ==
    pc # "start" =>
        \A p \in DOMAIN fs : parse_dependencies(fs, p) \subseteq graph[p[2]]

====
